---- MODULE Spec2Model ----
(***************************************************************************)
(* Monster Mayhem: the per-session game state machine of class Game        *)
(* (src/monster-mayhem_en_final/client/script.js, lines 310-879).          *)
(* One action per public operation of Game as the server drives it:        *)
(* addPlayer, removePlayer, startGame, placeMonster, moveMonster, endTurn. *)
(* JavaScript is single-threaded and no operation awaits, so every         *)
(* operation is one atomic step.                                           *)
(***************************************************************************)
EXTENDS Integers, Sequences, FiniteSets, TLC

\* ------------------------------------------------------------------ bounds
\* Connection ids that ever talk to the session: 1..NumPlayers.
NumPlayers == 2
\* Largest board coordinate.  The source board is 10x10 (largest coordinate
\* 9, script.js:314); the model keeps every comparison of the source and
\* scales the grid.
BoardMax == 1
\* Number of lost monsters at which a player is eliminated.  The source
\* compares with 10 (script.js:824); the model scales the threshold.
EliminationLimit == 1
\* Supply of fresh monster ids (uuidv4 calls that may happen).
MaxMonsters == 3
\* Largest value of the round counter that is explored.
MaxRound == 2
\* Connection ids of the lobby specification: one more than a session holds.
LobbyPlayers == 5
\* Connection ids and uuid supply of the three-player specification.
TrioPlayers == 3
TrioMonsters == 1
\* The uuids drawn in the sessions that explore the skipping of eliminated
\* players.
SkipMonsters == 2
\* Largest coordinate of the boards on which isValidPlacement and isValidMove
\* are called on their own (it stands for the 9 of script.js:485 and 551), and
\* the number of monsters on such a board besides the one that moves.
GridMax == 3
GridMonsters == 2

\* ------------------------------------------------------- program constants
MaxPlayers == 4

EdgeOrder == <<"top", "bottom", "left", "right">>
MonsterTypes == {"vampire", "werewolf", "ghost"}

PlayerIds == 1..NumPlayers
LobbyIds == 1..LobbyPlayers
TrioIds == 1..TrioPlayers
Coords == 0..BoardMax
Cells == Coords \X Coords
\* Arguments a client may send: every cell and some off-board positions,
\* every monster type and an unknown one, every id the uuid supply can give.
PositionInputs == Cells \cup {<<-1, 0>>, <<0, BoardMax + 1>>, <<BoardMax + 1, -1>>}
TypeInputs == MonsterTypes \cup {"zombie"}
SkipTypes == {"vampire", "werewolf"}
MonsterIds == 1..MaxMonsters

\* JavaScript null, for a player id and for a board cell / monster reference.
NoPlayer == 0
NoMonster == [id |-> 0, type |-> "null", x |-> -1, y |-> -1, owner |-> 0]

\* ret is the value the last call returned, kept as far as the properties
\* need it: success, the failure "Not your turn.", any other failure, or
\* nothing at all (removePlayer returns undefined).
Success == "success"
NotYourTurn == "Not your turn."
Failure == "failure"
Undefined == "undefined"

VARIABLES players, board, playerOrder, currentPlayerIndex, round,
          availableEdges, status, winner, turnActions, actionLock,
          nextId, placements, ret, turnLog, probe

gameVars == <<players, board, playerOrder, currentPlayerIndex, round,
              availableEdges, status, winner, turnActions, actionLock>>
vars == <<players, board, playerOrder, currentPlayerIndex, round,
          availableEdges, status, winner, turnActions, actionLock,
          nextId, placements, ret, turnLog, probe>>

\* ----------------------------------------------------------------- helpers
Range(s) == {s[i] : i \in 1..Len(s)}

\* Array.prototype.indexOf / findIndex, 1-based; 0 stands for -1.
indexOf(s, e) == IF \E i \in 1..Len(s) : s[i] = e
                 THEN CHOOSE i \in 1..Len(s) : s[i] = e /\ \A j \in 1..(i - 1) : s[j] # e
                 ELSE 0

findIndex_firstWhenMissing(monsters, monsterId) ==
    IF \E i \in 1..Len(monsters) : monsters[i].id = monsterId
    THEN CHOOSE i \in 1..Len(monsters) :
            monsters[i].id = monsterId /\ \A j \in 1..(i - 1) : monsters[j].id # monsterId
    ELSE IF Len(monsters) > 0 THEN 1 ELSE 0

findIndex(monsters, monsterId) ==
    IF \E i \in 1..Len(monsters) : monsters[i].id = monsterId
    THEN CHOOSE i \in 1..Len(monsters) :
            monsters[i].id = monsterId /\ \A j \in 1..(i - 1) : monsters[j].id # monsterId
    ELSE 0

splice_noRemoval(s, i) == s

\* Array.prototype.splice(i, 1), 1-based.
splice(s, i) == [j \in 1..(Len(s) - 1) |-> IF j < i THEN s[j] ELSE s[j + 1]]

Perms(s) == {t \in [1..Len(s) -> Range(s)] : Range(t) = Range(s)}

abs(n) == IF n < 0 THEN -n ELSE n
sign(n) == IF n > 0 THEN 1 ELSE IF n < 0 THEN -1 ELSE 0

emptyTurnAction == [placedMonster |-> FALSE, placedMonsterId |-> 0, movedMonsters |-> {}]

\* History of the turn in progress: the ids of the monsters the current player
\* has placed and moved successfully since becoming the current player.  No
\* operation reads it.
emptyTurnLog == [placed |-> <<>>, moved |-> <<>>]

\* probe holds the arguments and the result of one call of a pure function
\* (isValidMove, isValidPlacement) on a board of its own; NoProbe in the
\* specifications that run the session.
NoProbe == [kind |-> "none"]

\* ------------------------------------------------------- queries of Game
\* getCurrentPlayer without its status test.
getCurrentPlayer_anyStatus ==
    IF Len(playerOrder) = 0 THEN NoPlayer
    ELSE IF currentPlayerIndex + 1 \in 1..Len(playerOrder)
         THEN playerOrder[currentPlayerIndex + 1]
         ELSE NoPlayer

getCurrentPlayer ==
    IF status # "active" \/ Len(playerOrder) = 0 THEN NoPlayer
    ELSE IF currentPlayerIndex + 1 \in 1..Len(playerOrder)
         THEN playerOrder[currentPlayerIndex + 1]
         ELSE NoPlayer

isPlayerEliminatedIn(ps, p) ==
    p \notin DOMAIN ps \/ ps[p].monstersLost >= EliminationLimit

isPlayerEliminated(p) == isPlayerEliminatedIn(players, p)

activePlayersIn(ps, order) == SelectSeq(order, LAMBDA pid : ~isPlayerEliminatedIn(ps, pid))

\* checkForWinner that accepts "at least one" active player.
checkForWinnerIn_atLeastOne(ps, order) ==
    LET activePlayers == activePlayersIn(ps, order)
    IN IF Len(activePlayers) >= 1 /\ Len(order) > 1 THEN activePlayers[1] ELSE NoPlayer

\* checkForWinner without the test that more than one player is in the order.
checkForWinnerIn_lastStanding(ps, order) ==
    LET activePlayers == activePlayersIn(ps, order)
    IN IF Len(activePlayers) = 1 THEN activePlayers[1] ELSE NoPlayer

checkForWinnerIn(ps, order) ==
    LET activePlayers == activePlayersIn(ps, order)
    IN IF Len(activePlayers) = 1 /\ Len(order) > 1 THEN activePlayers[1] ELSE NoPlayer

\* isValidPlacement without the test for an occupied square.
isValidPlacementOn_noOccupiedCheck(ps, b, max, p, x, y) ==
    /\ p \in DOMAIN ps
    /\ ~(x < 0 \/ x > max \/ y < 0 \/ y > max)
    /\ CASE ps[p].edge = "top" -> y = 0
         [] ps[p].edge = "bottom" -> y = max
         [] ps[p].edge = "left" -> x = 0
         [] ps[p].edge = "right" -> x = max
         [] OTHER -> FALSE

\* isValidPlacement on the players ps and the board b of largest coordinate max.
isValidPlacementOn(ps, b, max, p, x, y) ==
    /\ p \in DOMAIN ps
    /\ ~(x < 0 \/ x > max \/ y < 0 \/ y > max)
    /\ b[<<x, y>>] = NoMonster
    /\ CASE ps[p].edge = "top" -> y = 0
         [] ps[p].edge = "bottom" -> y = max
         [] ps[p].edge = "left" -> x = 0
         [] ps[p].edge = "right" -> x = max
         [] OTHER -> FALSE

isValidPlacement(p, x, y) == isValidPlacementOn(players, board, BoardMax, p, x, y)

RECURSIVE walkPathOn_anyDestination(_, _, _, _, _, _, _, _, _)
walkPathOn_anyDestination(b, max, p, currentX, currentY, stepX, stepY, newX, newY) ==
    IF currentX = newX /\ currentY = newY THEN TRUE
    ELSE LET x1 == IF currentX # newX THEN currentX + stepX ELSE currentX
             y1 == IF currentY # newY THEN currentY + stepY ELSE currentY
         IN IF x1 < 0 \/ x1 > max \/ y1 < 0 \/ y1 > max THEN FALSE
            ELSE LET squareContent == b[<<x1, y1>>]
                 IN IF x1 = newX /\ y1 = newY
                    THEN TRUE
                    ELSE IF squareContent # NoMonster /\ squareContent.owner # p
                         THEN FALSE
                         ELSE walkPathOn_anyDestination(b, max, p, x1, y1,
                                                        stepX, stepY, newX, newY)

RECURSIVE walkPathOn_anyTokenBlocks(_, _, _, _, _, _, _, _, _)
walkPathOn_anyTokenBlocks(b, max, p, currentX, currentY, stepX, stepY, newX, newY) ==
    IF currentX = newX /\ currentY = newY THEN TRUE
    ELSE LET x1 == IF currentX # newX THEN currentX + stepX ELSE currentX
             y1 == IF currentY # newY THEN currentY + stepY ELSE currentY
         IN IF x1 < 0 \/ x1 > max \/ y1 < 0 \/ y1 > max THEN FALSE
            ELSE LET squareContent == b[<<x1, y1>>]
                 IN IF x1 = newX /\ y1 = newY
                    THEN squareContent = NoMonster \/ squareContent.owner # p
                    ELSE IF squareContent # NoMonster
                         THEN FALSE
                         ELSE walkPathOn_anyTokenBlocks(b, max, p, x1, y1,
                                                        stepX, stepY, newX, newY)

\* The while loop of isValidMove: one unit step per iteration, on the board b
\* of largest coordinate max.
RECURSIVE walkPathOn(_, _, _, _, _, _, _, _, _)
walkPathOn(b, max, p, currentX, currentY, stepX, stepY, newX, newY) ==
    IF currentX = newX /\ currentY = newY THEN TRUE
    ELSE LET x1 == IF currentX # newX THEN currentX + stepX ELSE currentX
             y1 == IF currentY # newY THEN currentY + stepY ELSE currentY
         IN IF x1 < 0 \/ x1 > max \/ y1 < 0 \/ y1 > max THEN FALSE
            ELSE LET squareContent == b[<<x1, y1>>]
                 IN IF x1 = newX /\ y1 = newY
                    THEN squareContent = NoMonster \/ squareContent.owner # p
                    ELSE IF squareContent # NoMonster /\ squareContent.owner # p
                         THEN FALSE
                         ELSE walkPathOn(b, max, p, x1, y1, stepX, stepY, newX, newY)

walkPath(p, currentX, currentY, stepX, stepY, newX, newY) ==
    walkPathOn(board, BoardMax, p, currentX, currentY, stepX, stepY, newX, newY)

isValidMoveOn_noDiagonalCap(b, max, p, monster, newX, newY) ==
    IF newX < 0 \/ newX > max \/ newY < 0 \/ newY > max THEN FALSE
    ELSE LET dx == abs(newX - monster.x)
             dy == abs(newY - monster.y)
             isDiagonal == dx > 0 /\ dy > 0
             isStraight == (dx > 0 /\ dy = 0) \/ (dx = 0 /\ dy > 0)
         IN IF ~isStraight /\ ~isDiagonal THEN FALSE
            ELSE walkPathOn(b, max, p, monster.x, monster.y,
                            sign(newX - monster.x), sign(newY - monster.y), newX, newY)

isValidMoveOn_emptyDestination(b, max, p, monster, newX, newY) ==
    IF newX < 0 \/ newX > max \/ newY < 0 \/ newY > max THEN FALSE
    ELSE LET dx == abs(newX - monster.x)
             dy == abs(newY - monster.y)
             isDiagonal == dx > 0 /\ dy > 0
             isStraight == (dx > 0 /\ dy = 0) \/ (dx = 0 /\ dy > 0)
         IN IF ~isStraight /\ ~isDiagonal THEN FALSE
            ELSE IF isDiagonal /\ (dx > 2 \/ dy > 2) THEN FALSE
            ELSE /\ b[<<newX, newY>>] = NoMonster
                 /\ walkPathOn(b, max, p, monster.x, monster.y,
                               sign(newX - monster.x), sign(newY - monster.y), newX, newY)

isValidMoveOn(b, max, p, monster, newX, newY) ==
    IF newX < 0 \/ newX > max \/ newY < 0 \/ newY > max THEN FALSE
    ELSE LET dx == abs(newX - monster.x)
             dy == abs(newY - monster.y)
             isDiagonal == dx > 0 /\ dy > 0
             isStraight == (dx > 0 /\ dy = 0) \/ (dx = 0 /\ dy > 0)
         IN IF ~isStraight /\ ~isDiagonal THEN FALSE
            ELSE IF isDiagonal /\ (dx > 2 \/ dy > 2) THEN FALSE
            ELSE walkPathOn(b, max, p, monster.x, monster.y,
                            sign(newX - monster.x), sign(newY - monster.y), newX, newY)

isValidMove(p, monster, newX, newY) ==
    isValidMoveOn(board, BoardMax, p, monster, newX, newY)

\* moveMonster reads the destination square before it moves the monster and
\* calls handleConflict when the square held a monster.
destinationContentOn(b, newX, newY) == b[<<newX, newY>>]
callsHandleConflictOn(b, newX, newY) == destinationContentOn(b, newX, newY) # NoMonster

\* The state getState returns for the clients; the session's id is the same
\* in every state.
GameId == "game"

getState ==
    [id |-> GameId,
     players |-> [q \in DOMAIN players |->
                     [id |-> players[q].id,
                      edge |-> players[q].edge,
                      monsterCount |-> Len(players[q].monsters),
                      monstersLost |-> players[q].monstersLost,
                      isEliminated |-> isPlayerEliminated(q)]],
     board |-> board,
     currentPlayerId |-> getCurrentPlayer,
     round |-> round,
     status |-> status,
     winner |-> winner,
     playerOrder |-> playerOrder,
     turnActions |-> turnActions]

\* The player whose turn it is, read off the state: playerOrder[currentPlayerIndex]
\* of an Active session.
IsCurrent(p) ==
    /\ status = "active"
    /\ currentPlayerIndex + 1 \in 1..Len(playerOrder)
    /\ playerOrder[currentPlayerIndex + 1] = p

\* ------------------------------------------------------------------ combat
\* removeMonster that forgets monstersLost++.
removeMonster_noCount(st, monsterId, ownerId) ==
    IF ownerId \notin DOMAIN st.players THEN st
    ELSE LET player == st.players[ownerId]
             monsterIndex == findIndex(player.monsters, monsterId)
         IN IF monsterIndex = 0 THEN st
            ELSE LET monster == player.monsters[monsterIndex]
                     onBoard == /\ <<monster.x, monster.y>> \in Cells
                                /\ st.board[<<monster.x, monster.y>>].id = monsterId
                 IN [players |-> [st.players EXCEPT ![ownerId] =
                                    [@ EXCEPT !.monsters = splice(@, monsterIndex)]],
                     board |-> IF onBoard
                               THEN [st.board EXCEPT ![<<monster.x, monster.y>>] = NoMonster]
                               ELSE st.board]

\* st is the pair [players, board] that removeMonster / handleConflict mutate.
removeMonster(st, monsterId, ownerId) ==
    IF ownerId \notin DOMAIN st.players THEN st
    ELSE LET player == st.players[ownerId]
             monsterIndex == findIndex(player.monsters, monsterId)
         IN IF monsterIndex = 0 THEN st
            ELSE LET monster == player.monsters[monsterIndex]
                     onBoard == /\ <<monster.x, monster.y>> \in Cells
                                /\ st.board[<<monster.x, monster.y>>].id = monsterId
                 IN [players |-> [st.players EXCEPT ![ownerId] =
                                    [@ EXCEPT !.monsters = splice(@, monsterIndex),
                                              !.monstersLost = @ + 1]],
                     board |-> IF onBoard
                               THEN [st.board EXCEPT ![<<monster.x, monster.y>>] = NoMonster]
                               ELSE st.board]

\* The rock-paper-scissors branches with the ghost/vampire outcome swapped.
removedMonster_swapped(movingMonster, existingMonster) ==
    LET type1 == movingMonster.type
        type2 == existingMonster.type
    IN IF {type1, type2} = {"vampire", "werewolf"}
       THEN (IF type2 = "werewolf" THEN existingMonster ELSE movingMonster)
       ELSE IF {type1, type2} = {"werewolf", "ghost"}
       THEN (IF type2 = "ghost" THEN existingMonster ELSE movingMonster)
       ELSE IF {type1, type2} = {"ghost", "vampire"}
       THEN (IF type2 = "ghost" THEN existingMonster ELSE movingMonster)
       ELSE NoMonster

\* The rock-paper-scissors branches: which of the two monsters is removed.
removedMonster(movingMonster, existingMonster) ==
    LET type1 == movingMonster.type
        type2 == existingMonster.type
    IN IF {type1, type2} = {"vampire", "werewolf"}
       THEN (IF type2 = "werewolf" THEN existingMonster ELSE movingMonster)
       ELSE IF {type1, type2} = {"werewolf", "ghost"}
       THEN (IF type2 = "ghost" THEN existingMonster ELSE movingMonster)
       ELSE IF {type1, type2} = {"ghost", "vampire"}
       THEN (IF type2 = "vampire" THEN existingMonster ELSE movingMonster)
       ELSE NoMonster

handleConflict(st, movingMonster, existingMonster) ==
    IF movingMonster = NoMonster \/ existingMonster = NoMonster THEN st
    ELSE IF movingMonster.owner = existingMonster.owner THEN st
    ELSE IF movingMonster.type = existingMonster.type
         THEN removeMonster(removeMonster(st, movingMonster.id, movingMonster.owner),
                            existingMonster.id, existingMonster.owner)
         ELSE LET removed == removedMonster(movingMonster, existingMonster)
              IN IF removed # NoMonster
                 THEN removeMonster(st, removed.id, removed.owner)
                 ELSE st

\* The board update of moveMonster: the old cell is vacated, the new cell
\* references the monster, whose x and y have been set to the new position
\* (every cell referencing that object sees the new position).
moveOnBoard_keepOld(b, old, monster) ==
    [c \in Cells |->
        IF c = <<monster.x, monster.y>> THEN monster
        ELSE IF b[c].id = monster.id /\ b[c] # NoMonster THEN monster
        ELSE b[c]]

moveOnBoard(b, old, monster) ==
    [c \in Cells |->
        IF c = <<monster.x, monster.y>> THEN monster
        ELSE IF c = <<old.x, old.y>> THEN NoMonster
        ELSE IF b[c].id = monster.id /\ b[c] # NoMonster THEN monster
        ELSE b[c]]

\* -------------------------------------------------------------------- Init
\* new Game(gameId, creatorId): the constructor ends with addPlayer(creatorId).
InitSession(ids) ==
    \E creatorId \in ids :
        /\ players = (creatorId :> [id |-> creatorId, edge |-> "top",
                                    monsters |-> <<>>, monstersLost |-> 0])
        /\ board = [c \in Cells |-> NoMonster]
        /\ playerOrder = <<creatorId>>
        /\ currentPlayerIndex = 0
        /\ round = 1
        /\ availableEdges = <<"bottom", "left", "right">>
        /\ status = "waiting"
        /\ winner = NoPlayer
        /\ turnActions = <<>>
        /\ actionLock = FALSE
        /\ nextId = 1
        /\ placements = [p \in ids |-> 0]
        /\ ret = Success
        /\ turnLog = emptyTurnLog

InitFor(ids) == InitSession(ids) /\ probe = NoProbe

Init == InitFor(PlayerIds)

\* ----------------------------------------------------------------- actions
Rejected_lockHeld(result) ==
    /\ ret' = result
    /\ actionLock' = TRUE
    /\ UNCHANGED <<players, board, playerOrder, currentPlayerIndex, round,
                   availableEdges, status, winner, turnActions, nextId, placements,
                   turnLog, probe>>

\* A call that returns a failure without touching the session.
Rejected(result) ==
    /\ ret' = result
    /\ UNCHANGED <<gameVars, nextId, placements, turnLog, probe>>

\* addPlayer without the test for a player who is already in the game.
addPlayer_noMemberCheck(p) ==
    IF Len(playerOrder) >= MaxPlayers \/ status # "waiting" THEN Rejected(Failure)
    ELSE IF Len(availableEdges) = 0 THEN Rejected(Failure)
    ELSE /\ availableEdges' = Tail(availableEdges)
         /\ players' = [q \in DOMAIN players \cup {p} |->
                          IF q = p THEN [id |-> p, edge |-> Head(availableEdges),
                                         monsters |-> <<>>, monstersLost |-> 0]
                          ELSE players[q]]
         /\ playerOrder' = Append(playerOrder, p)
         /\ placements' = [placements EXCEPT ![p] = 0]
         /\ ret' = Success
         /\ UNCHANGED <<board, currentPlayerIndex, round, status, winner,
                        turnActions, actionLock, nextId, turnLog, probe>>

addPlayer(p) ==
    IF Len(playerOrder) >= MaxPlayers \/ status # "waiting" THEN Rejected(Failure)
    ELSE IF p \in DOMAIN players THEN Rejected(Failure)
    ELSE IF Len(availableEdges) = 0 THEN Rejected(Failure)
    ELSE /\ availableEdges' = Tail(availableEdges)
         /\ players' = [q \in DOMAIN players \cup {p} |->
                          IF q = p THEN [id |-> p, edge |-> Head(availableEdges),
                                         monsters |-> <<>>, monstersLost |-> 0]
                          ELSE players[q]]
         /\ playerOrder' = Append(playerOrder, p)
         /\ placements' = [placements EXCEPT ![p] = 0]
         /\ ret' = Success
         /\ UNCHANGED <<board, currentPlayerIndex, round, status, winner,
                        turnActions, actionLock, nextId, turnLog, probe>>

\* availableEdges.push(edge) without the sort.
returnEdge_noSort(edges, edge) == Append(edges, edge)

\* availableEdges.push(edge) followed by the sort on the canonical order.
returnEdge(edges, edge) ==
    LET all == Range(edges) \cup {edge}
    IN SelectSeq(EdgeOrder, LAMBDA e : e \in all)

endGame_overwrite(sw, winnerId) == [status |-> "finished", winner |-> winnerId]

\* endGame(winnerId) applied to a (status, winner) pair.
endGame(sw, winnerId) ==
    IF sw.status = "finished" THEN sw
    ELSE [status |-> "finished", winner |-> winnerId]

\* removePlayer without the decrement for a leaver before the current player.
removePlayer_noDecrement(p) ==
    IF p \notin DOMAIN players
    THEN /\ ret' = Undefined
         /\ UNCHANGED <<gameVars, nextId, placements, turnLog, probe>>
    ELSE LET monsters == players[p].monsters
             cleared == {c \in Cells : /\ \E i \in 1..Len(monsters) :
                                            <<monsters[i].x, monsters[i].y>> = c
                                       /\ board[c].owner = p}
             playerIndex == indexOf(playerOrder, p) - 1
             len == Len(playerOrder)
             idxA == IF playerIndex > -1 /\ status = "active"
                        /\ playerIndex = currentPlayerIndex
                     THEN currentPlayerIndex % (IF len > 1 THEN len - 1 ELSE 1)
                     ELSE currentPlayerIndex
             order1 == IF playerIndex > -1 THEN splice(playerOrder, playerIndex + 1)
                       ELSE playerOrder
             idxB == idxA
             players1 == [q \in DOMAIN players \ {p} |-> players[q]]
             idxC == IF status = "active" /\ Len(order1) > 0
                     THEN idxB % Len(order1) ELSE idxB
             sw1 == IF ~(status = "active" /\ Len(order1) > 0) /\ Len(order1) = 0
                    THEN [status |-> "finished", winner |-> NoPlayer]
                    ELSE [status |-> status, winner |-> winner]
             win == checkForWinnerIn(players1, order1)
             sw2 == IF sw1.status = "active"
                    THEN (IF win # NoPlayer THEN endGame(sw1, win)
                          ELSE IF Len(order1) < 2 THEN endGame(sw1, NoPlayer)
                          ELSE sw1)
                    ELSE sw1
             before == IF status = "active" /\ currentPlayerIndex + 1 \in 1..len
                       THEN playerOrder[currentPlayerIndex + 1] ELSE NoPlayer
             after == IF sw2.status = "active" /\ idxC + 1 \in 1..Len(order1)
                      THEN order1[idxC + 1] ELSE NoPlayer
         IN /\ availableEdges' = returnEdge(availableEdges, players[p].edge)
            /\ board' = [c \in Cells |-> IF c \in cleared THEN NoMonster ELSE board[c]]
            /\ playerOrder' = order1
            /\ currentPlayerIndex' = idxC
            /\ players' = players1
            /\ turnActions' = [q \in DOMAIN turnActions \ {p} |-> turnActions[q]]
            /\ status' = sw2.status
            /\ winner' = sw2.winner
            /\ placements' = [placements EXCEPT ![p] = 0]
            /\ ret' = Undefined
            /\ turnLog' = IF after # before THEN emptyTurnLog ELSE turnLog
            /\ UNCHANGED <<round, actionLock, nextId, probe>>

removePlayer(p) ==
    IF p \notin DOMAIN players
    THEN /\ ret' = Undefined
         /\ UNCHANGED <<gameVars, nextId, placements, turnLog, probe>>
    ELSE LET monsters == players[p].monsters
             cleared == {c \in Cells : /\ \E i \in 1..Len(monsters) :
                                            <<monsters[i].x, monsters[i].y>> = c
                                       /\ board[c].owner = p}
             playerIndex == indexOf(playerOrder, p) - 1
             len == Len(playerOrder)
             idxA == IF playerIndex > -1 /\ status = "active"
                        /\ playerIndex = currentPlayerIndex
                     THEN currentPlayerIndex % (IF len > 1 THEN len - 1 ELSE 1)
                     ELSE currentPlayerIndex
             order1 == IF playerIndex > -1 THEN splice(playerOrder, playerIndex + 1)
                       ELSE playerOrder
             idxB == IF playerIndex > -1 /\ status = "active" /\ playerIndex < idxA
                     THEN idxA - 1 ELSE idxA
             players1 == [q \in DOMAIN players \ {p} |-> players[q]]
             idxC == IF status = "active" /\ Len(order1) > 0
                     THEN idxB % Len(order1) ELSE idxB
             sw1 == IF ~(status = "active" /\ Len(order1) > 0) /\ Len(order1) = 0
                    THEN [status |-> "finished", winner |-> NoPlayer]
                    ELSE [status |-> status, winner |-> winner]
             win == checkForWinnerIn(players1, order1)
             sw2 == IF sw1.status = "active"
                    THEN (IF win # NoPlayer THEN endGame(sw1, win)
                          ELSE IF Len(order1) < 2 THEN endGame(sw1, NoPlayer)
                          ELSE sw1)
                    ELSE sw1
             before == IF status = "active" /\ currentPlayerIndex + 1 \in 1..len
                       THEN playerOrder[currentPlayerIndex + 1] ELSE NoPlayer
             after == IF sw2.status = "active" /\ idxC + 1 \in 1..Len(order1)
                      THEN order1[idxC + 1] ELSE NoPlayer
         IN /\ availableEdges' = returnEdge(availableEdges, players[p].edge)
            /\ board' = [c \in Cells |-> IF c \in cleared THEN NoMonster ELSE board[c]]
            /\ playerOrder' = order1
            /\ currentPlayerIndex' = idxC
            /\ players' = players1
            /\ turnActions' = [q \in DOMAIN turnActions \ {p} |-> turnActions[q]]
            /\ status' = sw2.status
            /\ winner' = sw2.winner
            /\ placements' = [placements EXCEPT ![p] = 0]
            /\ ret' = Undefined
            /\ turnLog' = IF after # before THEN emptyTurnLog ELSE turnLog
            /\ UNCHANGED <<round, actionLock, nextId, probe>>

\* resetTurnActions() with no argument: every player of playerOrder.
resetAllTurnActions(ta, order) ==
    [q \in DOMAIN ta \cup Range(order) |->
        IF q \in Range(order) THEN emptyTurnAction ELSE ta[q]]

\* resetTurnActions(playerId); a null playerId takes the reset-all branch.
resetTurnActions(ta, order, p) ==
    IF p # NoPlayer
    THEN [q \in DOMAIN ta \cup {p} |-> IF q = p THEN emptyTurnAction ELSE ta[q]]
    ELSE resetAllTurnActions(ta, order)

\* startGame that accepts a session of one player.
startGame_onePlayer ==
    IF status # "waiting" \/ Len(playerOrder) < 1 THEN Rejected(Failure)
    ELSE \E order \in Perms(playerOrder) :
            /\ status' = "active"
            /\ playerOrder' = order
            /\ currentPlayerIndex' = 0
            /\ round' = 1
            /\ turnActions' = resetAllTurnActions(turnActions, order)
            /\ ret' = Success
            /\ turnLog' = emptyTurnLog
            /\ UNCHANGED <<players, board, availableEdges, winner, actionLock,
                           nextId, placements, probe>>

startGame ==
    IF status # "waiting" \/ Len(playerOrder) < 2 THEN Rejected(Failure)
    ELSE \E order \in Perms(playerOrder) :
            /\ status' = "active"
            /\ playerOrder' = order
            /\ currentPlayerIndex' = 0
            /\ round' = 1
            /\ turnActions' = resetAllTurnActions(turnActions, order)
            /\ ret' = Success
            /\ turnLog' = emptyTurnLog
            /\ UNCHANGED <<players, board, availableEdges, winner, actionLock,
                           nextId, placements, probe>>

\* placeMonster without the test of turnActions[playerId].placedMonster.
placeMonster_noPlacedCheck(p, type, x, y) ==
    IF actionLock THEN Rejected(Failure)
    ELSE IF getCurrentPlayer # p THEN Rejected(NotYourTurn)
    ELSE IF type \notin MonsterTypes THEN Rejected(Failure)
    ELSE IF ~isValidPlacement(p, x, y) THEN Rejected(Failure)
    ELSE /\ LET newMonster == [id |-> nextId, type |-> type, x |-> x, y |-> y, owner |-> p]
            IN /\ players' = [players EXCEPT ![p].monsters = Append(@, newMonster)]
               /\ board' = [board EXCEPT ![<<x, y>>] = newMonster]
               /\ turnActions' = [turnActions EXCEPT ![p].placedMonster = TRUE,
                                                     ![p].placedMonsterId = nextId]
         /\ nextId' = nextId + 1
         /\ placements' = [placements EXCEPT ![p] = @ + 1]
         /\ actionLock' = FALSE
         /\ ret' = Success
         /\ turnLog' = [turnLog EXCEPT !.placed = Append(@, nextId)]
         /\ UNCHANGED <<playerOrder, currentPlayerIndex, round, availableEdges,
                        status, winner, probe>>

placeMonster_passesTurn(p, type, x, y) ==
    IF actionLock THEN Rejected(Failure)
    ELSE IF getCurrentPlayer # p THEN Rejected(NotYourTurn)
    ELSE IF p \in DOMAIN turnActions /\ turnActions[p].placedMonster
         THEN Rejected(Failure)
    ELSE IF type \notin MonsterTypes THEN Rejected(Failure)
    ELSE IF ~isValidPlacement(p, x, y) THEN Rejected(Failure)
    ELSE /\ LET newMonster == [id |-> nextId, type |-> type, x |-> x, y |-> y, owner |-> p]
            IN /\ players' = [players EXCEPT ![p].monsters = Append(@, newMonster)]
               /\ board' = [board EXCEPT ![<<x, y>>] = newMonster]
               /\ turnActions' = [turnActions EXCEPT ![p].placedMonster = TRUE,
                                                     ![p].placedMonsterId = nextId]
         /\ currentPlayerIndex' = (currentPlayerIndex + 1) % Len(playerOrder)
         /\ nextId' = nextId + 1
         /\ placements' = [placements EXCEPT ![p] = @ + 1]
         /\ actionLock' = FALSE
         /\ ret' = Success
         /\ turnLog' = [turnLog EXCEPT !.placed = Append(@, nextId)]
         /\ UNCHANGED <<playerOrder, round, availableEdges, status, winner, probe>>

placeMonster_flagBeforeCheck(p, type, x, y) ==
    IF actionLock THEN Rejected(Failure)
    ELSE IF getCurrentPlayer # p THEN Rejected(NotYourTurn)
    ELSE IF p \in DOMAIN turnActions /\ turnActions[p].placedMonster
         THEN Rejected(Failure)
    ELSE IF type \notin MonsterTypes THEN Rejected(Failure)
    ELSE IF ~isValidPlacement(p, x, y)
         THEN /\ turnActions' = [turnActions EXCEPT ![p].placedMonster = TRUE]
              /\ ret' = Failure
              /\ UNCHANGED <<players, board, playerOrder, currentPlayerIndex, round,
                             availableEdges, status, winner, actionLock, nextId,
                             placements, turnLog, probe>>
    ELSE /\ LET newMonster == [id |-> nextId, type |-> type, x |-> x, y |-> y, owner |-> p]
            IN /\ players' = [players EXCEPT ![p].monsters = Append(@, newMonster)]
               /\ board' = [board EXCEPT ![<<x, y>>] = newMonster]
               /\ turnActions' = [turnActions EXCEPT ![p].placedMonster = TRUE,
                                                     ![p].placedMonsterId = nextId]
         /\ nextId' = nextId + 1
         /\ placements' = [placements EXCEPT ![p] = @ + 1]
         /\ actionLock' = FALSE
         /\ ret' = Success
         /\ turnLog' = [turnLog EXCEPT !.placed = Append(@, nextId)]
         /\ UNCHANGED <<playerOrder, currentPlayerIndex, round, availableEdges,
                        status, winner, probe>>

placeMonster(p, type, x, y) ==
    IF actionLock THEN Rejected(Failure)
    ELSE IF getCurrentPlayer # p THEN Rejected(NotYourTurn)
    ELSE IF p \in DOMAIN turnActions /\ turnActions[p].placedMonster
         THEN Rejected(Failure)
    ELSE IF type \notin MonsterTypes THEN Rejected(Failure)
    ELSE IF ~isValidPlacement(p, x, y) THEN Rejected(Failure)
    ELSE /\ LET newMonster == [id |-> nextId, type |-> type, x |-> x, y |-> y, owner |-> p]
            IN /\ players' = [players EXCEPT ![p].monsters = Append(@, newMonster)]
               /\ board' = [board EXCEPT ![<<x, y>>] = newMonster]
               /\ turnActions' = [turnActions EXCEPT ![p].placedMonster = TRUE,
                                                     ![p].placedMonsterId = nextId]
         /\ nextId' = nextId + 1
         /\ placements' = [placements EXCEPT ![p] = @ + 1]
         /\ actionLock' = FALSE
         /\ ret' = Success
         /\ turnLog' = [turnLog EXCEPT !.placed = Append(@, nextId)]
         /\ UNCHANGED <<playerOrder, currentPlayerIndex, round, availableEdges,
                        status, winner, probe>>

moveMonster(p, monsterId, newX, newY) ==
    IF actionLock THEN Rejected(Failure)
    ELSE IF getCurrentPlayer # p THEN Rejected(NotYourTurn)
    ELSE LET monsterIndex == findIndex(players[p].monsters, monsterId)
         IN IF monsterIndex = 0 THEN Rejected(Failure)
            ELSE IF p \in DOMAIN turnActions /\ turnActions[p].placedMonsterId = monsterId
                 THEN Rejected(Failure)
            ELSE IF p \in DOMAIN turnActions /\ monsterId \in turnActions[p].movedMonsters
                 THEN Rejected(Failure)
            ELSE IF ~isValidMove(p, players[p].monsters[monsterIndex], newX, newY)
                 THEN Rejected(Failure)
            ELSE LET old == players[p].monsters[monsterIndex]
                     destinationContent == board[<<newX, newY>>]
                     monster == [old EXCEPT !.x = newX, !.y = newY]
                     board1 == moveOnBoard(board, old, monster)
                     players1 == [players EXCEPT ![p].monsters[monsterIndex] = monster]
                     st1 == [players |-> players1, board |-> board1]
                     st2 == IF destinationContent # NoMonster
                            THEN handleConflict(st1, monster, destinationContent)
                            ELSE st1
                     win == checkForWinnerIn(st2.players, playerOrder)
                     sw == IF win # NoPlayer
                           THEN endGame([status |-> status, winner |-> winner], win)
                           ELSE [status |-> status, winner |-> winner]
                 IN /\ players' = st2.players
                    /\ board' = st2.board
                    /\ turnActions' = [turnActions EXCEPT ![p].movedMonsters =
                                                              @ \cup {monsterId}]
                    /\ status' = sw.status
                    /\ winner' = sw.winner
                    /\ actionLock' = FALSE
                    /\ ret' = Success
                    /\ turnLog' = [turnLog EXCEPT !.moved = Append(@, monsterId)]
                    /\ UNCHANGED <<playerOrder, currentPlayerIndex, round,
                                   availableEdges, nextId, placements, probe>>

monsterCount(ps, a) == IF a \in DOMAIN ps THEN Len(ps[a].monsters) ELSE MaxMonsters + 1

sortedOrders_mostFirst(ps, order) ==
    {t \in Perms(order) :
        \A i \in 1..Len(t) : \A j \in 1..Len(t) :
            i < j => monsterCount(ps, t[i]) >= monsterCount(ps, t[j])}

\* playerOrder.sort by live monster count, Math.random() on ties.
sortedOrders(ps, order) ==
    {t \in Perms(order) :
        \A i \in 1..Len(t) : \A j \in 1..Len(t) :
            i < j => monsterCount(ps, t[i]) <= monsterCount(ps, t[j])}

skipEliminated_noSkip(order, idx, skipped) == [index |-> idx, ended |-> FALSE]

\* The skip loop of endTurn from index idx with `skipped` players skipped;
\* yields the final index and whether the loop ended the game.
RECURSIVE skipEliminated(_, _, _)
skipEliminated(order, idx, skipped) ==
    IF isPlayerEliminated(order[idx + 1])
    THEN LET idx1 == (idx + 1) % Len(order)
         IN IF skipped + 1 >= Len(order)
            THEN [index |-> idx1, ended |-> TRUE]
            ELSE skipEliminated(order, idx1, skipped + 1)
    ELSE [index |-> idx, ended |-> FALSE]

endTurn_noAdvance(p) ==
    IF getCurrentPlayer # p THEN Rejected(NotYourTurn)
    ELSE LET idx1 == currentPlayerIndex
             wrapped == FALSE
         IN /\ \E order \in (IF wrapped THEN sortedOrders(players, playerOrder)
                             ELSE {playerOrder}) :
                 LET skip == skipEliminated(order, idx1, 0)
                     win == checkForWinnerIn(players, order)
                     sw == IF skip.ended
                           THEN endGame([status |-> status, winner |-> winner], win)
                           ELSE [status |-> status, winner |-> winner]
                 IN /\ playerOrder' = order
                    /\ round' = IF wrapped THEN round + 1 ELSE round
                    /\ currentPlayerIndex' = skip.index
                    /\ status' = sw.status
                    /\ winner' = sw.winner
                    /\ turnActions' = IF skip.ended THEN turnActions
                                      ELSE resetTurnActions(turnActions, order,
                                                            order[skip.index + 1])
            /\ ret' = Success
            /\ turnLog' = emptyTurnLog
            /\ UNCHANGED <<players, board, availableEdges, actionLock, nextId,
                           placements, probe>>

endTurn(p) ==
    IF getCurrentPlayer # p THEN Rejected(NotYourTurn)
    ELSE LET idx1 == (currentPlayerIndex + 1) % Len(playerOrder)
             wrapped == idx1 = 0
         IN /\ \E order \in (IF wrapped THEN sortedOrders(players, playerOrder)
                             ELSE {playerOrder}) :
                 LET skip == skipEliminated(order, idx1, 0)
                     win == checkForWinnerIn(players, order)
                     sw == IF skip.ended
                           THEN endGame([status |-> status, winner |-> winner], win)
                           ELSE [status |-> status, winner |-> winner]
                 IN /\ playerOrder' = order
                    /\ round' = IF wrapped THEN round + 1 ELSE round
                    /\ currentPlayerIndex' = skip.index
                    /\ status' = sw.status
                    /\ winner' = sw.winner
                    /\ turnActions' = IF skip.ended THEN turnActions
                                      ELSE resetTurnActions(turnActions, order,
                                                            order[skip.index + 1])
            /\ ret' = Success
            /\ turnLog' = emptyTurnLog
            /\ UNCHANGED <<players, board, availableEdges, actionLock, nextId,
                           placements, probe>>

\* -------------------------------------------------------- specification
\* The bounds of the exploration: the uuid supply and the round counter.
idsLeft == nextId <= MaxMonsters
roundsLeft == (currentPlayerIndex + 1 = Len(playerOrder)) => round < MaxRound

Next ==
    \/ \E p \in PlayerIds : addPlayer(p)
    \/ \E p \in PlayerIds : removePlayer(p)
    \/ startGame
    \/ \E p \in PlayerIds : \E type \in TypeInputs : \E pos \in PositionInputs :
          idsLeft /\ placeMonster(p, type, pos[1], pos[2])
    \/ \E p \in PlayerIds : \E monsterId \in MonsterIds : \E pos \in PositionInputs :
          moveMonster(p, monsterId, pos[1], pos[2])
    \/ \E p \in PlayerIds : roundsLeft /\ endTurn(p)

Spec == Init /\ [][Next]_vars

\* The lobby and the turn order of a session of up to four players out of
\* LobbyPlayers connections: joins, leaves, start and end of turn.
InitLobby == InitFor(LobbyIds)

NextLobby ==
    \/ \E p \in LobbyIds : addPlayer(p)
    \/ \E p \in LobbyIds : removePlayer(p)
    \/ startGame
    \/ \E p \in LobbyIds : roundsLeft /\ endTurn(p)

SpecLobby == InitLobby /\ [][NextLobby]_vars

\* A session of up to three players with every operation; a placeMonster
\* call is explored as long as it does not draw more than TrioMonsters uuids.
InitTrio == InitFor(TrioIds)

NextTrio ==
    \/ \E p \in TrioIds : addPlayer(p)
    \/ \E p \in TrioIds : removePlayer(p)
    \/ startGame
    \/ \E p \in TrioIds : \E type \in TypeInputs : \E pos \in PositionInputs :
          placeMonster(p, type, pos[1], pos[2]) /\ nextId' <= TrioMonsters + 1
    \/ \E p \in TrioIds : \E monsterId \in 1..TrioMonsters : \E pos \in PositionInputs :
          moveMonster(p, monsterId, pos[1], pos[2])
    \/ \E p \in TrioIds : roundsLeft /\ endTurn(p)

SpecTrio == InitTrio /\ [][NextTrio]_vars

\* The same sessions when whoever is the current player eventually ends the
\* turn, as long as the round counter is within its bound.
currentEndsTurn == \E p \in TrioIds : IsCurrent(p) /\ roundsLeft /\ endTurn(p)

SpecTrioFair == SpecTrio /\ WF_vars(currentEndsTurn)

\* The rotation of the turn among three players who never leave: joins,
\* start, and placements, moves and ends of turn with monsters of two types
\* on squares of the board, so that combat eliminates one player or two.
InitSkip == InitFor(TrioIds)

NextSkip ==
    \/ \E p \in TrioIds : addPlayer(p)
    \/ startGame
    \/ \E p \in TrioIds : \E type \in SkipTypes : \E pos \in Cells :
          placeMonster(p, type, pos[1], pos[2]) /\ nextId' <= SkipMonsters + 1
    \/ \E p \in TrioIds : \E monsterId \in 1..SkipMonsters : \E pos \in Cells :
          moveMonster(p, monsterId, pos[1], pos[2])
    \/ \E p \in TrioIds : roundsLeft /\ endTurn(p)

SpecSkip == InitSkip /\ [][NextSkip]_vars

\* A direct call of the public method endGame(winnerId).  The probe keeps the
\* argument of the last call made on a session that was already finished.
endGameCall(winnerId) ==
    /\ LET sw == endGame([status |-> status, winner |-> winner], winnerId)
       IN /\ status' = sw.status
          /\ winner' = sw.winner
    /\ probe' = IF status = "finished"
                THEN [kind |-> "endGame", winnerId |-> winnerId]
                ELSE probe
    /\ ret' = Undefined
    /\ UNCHANGED <<players, board, playerOrder, currentPlayerIndex, round,
                   availableEdges, turnActions, actionLock, nextId, placements,
                   turnLog>>

\* A session of up to three players with joins, leaves, start, placements of
\* a ghost, ends of turn and, at any moment, calls of endGame.
InitEndGame == InitFor(TrioIds)

NextEndGame ==
    \/ \E p \in TrioIds : addPlayer(p)
    \/ \E p \in TrioIds : removePlayer(p)
    \/ startGame
    \/ \E p \in TrioIds : \E pos \in Cells :
          placeMonster(p, "ghost", pos[1], pos[2]) /\ nextId' <= TrioMonsters + 1
    \/ \E p \in TrioIds : roundsLeft /\ endTurn(p)
    \/ \E winnerId \in TrioIds \cup {NoPlayer} : endGameCall(winnerId)

SpecEndGame == InitEndGame /\ [][NextEndGame]_vars

\* ------------------------------------------- the pure functions on their own
\* Boards of largest coordinate GridMax and the positions a call may name.
GridCells == (0..GridMax) \X (0..GridMax)
GridInputs == (-1..(GridMax + 1)) \X (-1..(GridMax + 1))

\* isValidPlacement(playerId, x, y) for a player on each of the four edges,
\* on a board whose cell (x, y) is empty (occupant 0) or holds a monster of
\* player `occupant`.
placementBoard(x, y, occupant) ==
    [c \in GridCells |->
        IF c = <<x, y>> /\ occupant # 0
        THEN [id |-> 1, type |-> "ghost", x |-> x, y |-> y, owner |-> occupant]
        ELSE NoMonster]

playerOnEdge(edge) ==
    (1 :> [id |-> 1, edge |-> edge, monsters |-> <<>>, monstersLost |-> 0])

InitIsValidPlacement ==
    /\ InitSession({1})
    /\ probe \in [kind : {"placement"}, pos : GridInputs, occupant : 0..2,
                  applied : {FALSE}, result : {{}}]

applyIsValidPlacement ==
    /\ probe.kind = "placement"
    /\ ~probe.applied
    /\ probe' = [probe EXCEPT
          !.applied = TRUE,
          !.result = {edge \in Range(EdgeOrder) :
                        isValidPlacementOn(playerOnEdge(edge),
                            placementBoard(probe.pos[1], probe.pos[2], probe.occupant),
                            GridMax, 1, probe.pos[1], probe.pos[2])}]
    /\ UNCHANGED <<gameVars, nextId, placements, ret, turnLog>>

SpecIsValidPlacement == InitIsValidPlacement /\ [][applyIsValidPlacement]_vars

\* isValidMove(playerId, monster, newX, newY) for a monster of player 1 on a
\* board with up to GridMonsters other monsters of players 1 and 2.
moveBoard(monster, others) ==
    [c \in GridCells |->
        IF c = <<monster.x, monster.y>> THEN monster
        ELSE IF \E o \in others : o.cell = c
        THEN LET o == CHOOSE o \in others : o.cell = c
             IN [id |-> o.id, type |-> "ghost", x |-> c[1], y |-> c[2], owner |-> o.owner]
        ELSE NoMonster]

\* The sets of at most n other monsters on distinct cells of `cells`, with
\* the ids nextid, nextid + 1, ... in the order of the cells.
cellRank(c) == c[1] * (GridMax + 1) + c[2]

RECURSIVE OtherMonstersOn(_, _, _)
OtherMonstersOn(cells, n, nextid) ==
    IF n = 0 THEN {{}}
    ELSE {{}} \cup
         UNION {{{[cell |-> cw[1], owner |-> cw[2], id |-> nextid]} \cup rest :
                    rest \in OtherMonstersOn({d \in cells : cellRank(d) > cellRank(cw[1])},
                                             n - 1, nextid + 1)} :
                  cw \in cells \X (1..2)}

OtherMonsters(from) == OtherMonstersOn(GridCells \ {from}, GridMonsters, 2)

InitIsValidMove ==
    /\ InitSession({1})
    /\ \E from \in GridCells : \E to \in GridInputs : \E others \in OtherMonsters(from) :
          probe = [kind |-> "move",
                   monster |-> [id |-> 1, type |-> "vampire",
                                x |-> from[1], y |-> from[2], owner |-> 1],
                   others |-> others, newX |-> to[1], newY |-> to[2],
                   applied |-> FALSE, result |-> FALSE, conflict |-> FALSE]

applyIsValidMove ==
    /\ probe.kind = "move"
    /\ ~probe.applied
    /\ LET b == moveBoard(probe.monster, probe.others)
           valid == isValidMoveOn(b, GridMax, 1, probe.monster, probe.newX, probe.newY)
       IN probe' = [probe EXCEPT
             !.applied = TRUE,
             !.result = valid,
             !.conflict = valid /\ callsHandleConflictOn(b, probe.newX, probe.newY)]
    /\ UNCHANGED <<gameVars, nextId, placements, ret, turnLog>>

SpecIsValidMove == InitIsValidMove /\ [][applyIsValidMove]_vars

\* ------------------------------------------------------------- properties
\* C1 (turn safety): a placeMonster, moveMonster or endTurn call by anyone
\* who is not playerOrder[currentPlayerIndex] of an Active session returns the
\* failure "Not your turn." and leaves every field of the session unchanged.
\* Stated as: every step either is such a rejection, or is no call of the
\* three operations by a player who is not the current one.
C1_TurnSafety ==
    [][\/ ret' = NotYourTurn /\ UNCHANGED gameVars
       \/ \A p \in PlayerIds :
            ~IsCurrent(p) =>
               /\ \A type \in TypeInputs : \A pos \in PositionInputs :
                     ~placeMonster(p, type, pos[1], pos[2])
               /\ \A monsterId \in MonsterIds : \A pos \in PositionInputs :
                     ~moveMonster(p, monsterId, pos[1], pos[2])
               /\ ~endTurn(p)]_vars

\* A rejected out-of-turn call in an Active session with monsters on the board.
C1_Witness ==
    /\ status = "active"
    /\ ret = NotYourTurn
    /\ \E c \in Cells : board[c] # NoMonster

\* C2 (Finished is terminal): once status is "finished", no later call
\* changes status or winner; a recorded winner is never overwritten.
C2_FinishedIsTerminal ==
    [][status = "finished" => (status' = "finished" /\ winner' = winner)]_vars

\* The monsters of a roster, and the ids in it.
Roster(ps, q) == {ps[q].monsters[i] : i \in 1..Len(ps[q].monsters)}
RosterIds(ps, q) == {m.id : m \in Roster(ps, q)}

\* C3 (roster-to-board consistency): every monster of every player's roster
\* is referenced by the board cell at the monster's stored (x, y).
C3_RosterOnBoard ==
    \A q \in DOMAIN players : \A m \in Roster(players, q) :
        /\ <<m.x, m.y>> \in Cells
        /\ board[<<m.x, m.y>>].id = m.id

\* C4 (board-to-roster consistency): every occupied cell (x, y) holds a monster
\* whose owner is a member of the session, that is exactly once in its owner's
\* roster, whose stored coordinates (on the board and in the roster) are
\* (x, y), and that no other cell references.
C4_BoardInRoster ==
    \A c \in Cells :
        board[c] # NoMonster =>
            LET m == board[c]
            IN /\ m.owner \in DOMAIN players
               /\ Cardinality({i \in 1..Len(players[m.owner].monsters) :
                                  players[m.owner].monsters[i].id = m.id}) = 1
               /\ m \in Roster(players, m.owner)
               /\ <<m.x, m.y>> = c
               /\ \A c2 \in Cells \ {c} : board[c2].id # m.id

\* Monsters stand on the board after a combat has removed one and after a
\* monster has been moved.
C4_Witness ==
    /\ \E c \in Cells : board[c] # NoMonster
    /\ \E q \in DOMAIN players : players[q].monstersLost > 0
    /\ \E q \in DOMAIN turnActions : turnActions[q].movedMonsters # {}

\* A step that is the successful move of monster monsterId of player p onto
\* cell pos, which held a monster of another player.
CombatMove(p, monsterId, pos) ==
    /\ ret' = Success
    /\ IsCurrent(p)
    /\ pos \in Cells
    /\ board[pos] # NoMonster
    /\ board[pos].owner # p
    /\ monsterId \in RosterIds(players, p)
    /\ moveMonster(p, monsterId, pos[1], pos[2])

TypeOf(ps, q, monsterId) ==
    (CHOOSE m \in Roster(ps, q) : m.id = monsterId).type

\* C5 (the survivor stays on the square): after a successful move onto a cell
\* holding another player's monster of a different type, the destination cell
\* is occupied, and it references the one of the two monsters that is still
\* in its owner's roster.
C5_SurvivorOnSquare ==
    [][\A p \in PlayerIds : \A monsterId \in MonsterIds : \A pos \in PositionInputs :
          (CombatMove(p, monsterId, pos)
             /\ board[pos].type # TypeOf(players, p, monsterId))
          => /\ board'[pos] # NoMonster
             /\ \A q \in DOMAIN players' : \A m \in Roster(players', q) :
                   m.id \in {monsterId, board[pos].id} => board'[pos].id = m.id]_vars

MonsterOf(ps, q, monsterId) == CHOOSE m \in Roster(ps, q) : m.id = monsterId

\* A combat between the arriving monster m and the occupying monster d removes
\* both when their types are equal and otherwise the one whose type is
\* Loser(m.type, d.type); every removed monster leaves its owner's roster and
\* adds exactly 1 to that owner's monstersLost; nothing else changes in any
\* roster or loss counter.
CombatRemoves(Loser(_, _)) ==
    \A p \in PlayerIds : \A monsterId \in MonsterIds : \A pos \in PositionInputs :
        CombatMove(p, monsterId, pos) =>
            LET m == MonsterOf(players, p, monsterId)
                d == board[pos]
                removed == IF m.type = d.type THEN {m, d}
                           ELSE {k \in {m, d} : k.type = Loser(m.type, d.type)}
            IN /\ DOMAIN players' = DOMAIN players
               /\ \A q \in DOMAIN players :
                     /\ RosterIds(players', q) =
                           RosterIds(players, q) \ {k.id : k \in {r \in removed : r.owner = q}}
                     /\ Len(players'[q].monsters) = Cardinality(RosterIds(players', q))
                     /\ players'[q].monstersLost =
                           players[q].monstersLost
                              + Cardinality({r \in removed : r.owner = q})

\* The table of the README's Combat section.
C6_Loser(t1, t2) ==
    CASE {t1, t2} = {"vampire", "werewolf"} -> "werewolf"
      [] {t1, t2} = {"werewolf", "ghost"} -> "ghost"
      [] {t1, t2} = {"ghost", "vampire"} -> "vampire"
      [] OTHER -> "null"

C7_Loser(t1, t2) ==
    CASE {t1, t2} = {"vampire", "ghost"} -> "ghost"
      [] {t1, t2} = {"ghost", "werewolf"} -> "werewolf"
      [] {t1, t2} = {"werewolf", "vampire"} -> "vampire"
      [] OTHER -> "null"

\* C7 (documented dominance cycle): in a combat between monsters of different
\* owners the ghost is removed against a vampire, the werewolf against a ghost
\* and the vampire against a werewolf, for both arrival directions.
C7_DocumentedCycle == [][CombatRemoves(C7_Loser)]_vars

\* C8 (loss counter): for every player of the session monstersLost is the
\* number of that player's monsters removed so far (placements made = roster
\* size + monstersLost), it never decreases, and the player is reported
\* eliminated exactly when monstersLost has reached the elimination limit.
C8_Counts ==
    \A q \in DOMAIN players :
        /\ placements[q] = Len(players[q].monsters) + players[q].monstersLost
        /\ isPlayerEliminated(q) <=> players[q].monstersLost >= EliminationLimit

C8_NeverDecreases ==
    \A q \in DOMAIN players \cap DOMAIN players' :
        players'[q].monstersLost >= players[q].monstersLost

C8_LossCounter == []C8_Counts /\ [][C8_NeverDecreases]_vars

\* A player who placed two monsters, lost one and still has the other.
C8_Witness ==
    \E q \in DOMAIN players :
        /\ placements[q] = 2
        /\ players[q].monstersLost = 1
        /\ Len(players[q].monsters) = 1

\* The members of the turn order that are not eliminated.
NonEliminated(ps, order) ==
    {q \in Range(order) : q \in DOMAIN ps /\ ps[q].monstersLost < EliminationLimit}

\* C9 (winner determination): a move whose combat leaves exactly one
\* non-eliminated player in a playerOrder of more than one player makes the
\* session Finished with that player as winner in the same step; a winner is
\* recorded only in Finished sessions, and the step that records it leaves
\* that player the unique non-eliminated member of playerOrder.
C9_Step ==
    /\ (/\ DOMAIN players' = DOMAIN players
        /\ \E q \in DOMAIN players : players'[q].monstersLost > players[q].monstersLost
        /\ Len(playerOrder') > 1
        /\ Cardinality(NonEliminated(players', playerOrder')) = 1)
       => /\ status' = "finished"
          /\ winner' \in NonEliminated(players', playerOrder')
    /\ (winner' # winner /\ winner' # NoPlayer)
       => /\ status' = "finished"
          /\ NonEliminated(players', playerOrder') = {winner'}

C9_WinnerDetermination ==
    [](winner # NoPlayer => status = "finished") /\ [][C9_Step]_vars

\* A Finished session whose winner and eliminated opponent are both members.
C9_Witness ==
    /\ status = "finished"
    /\ winner \in DOMAIN players
    /\ players[winner].monstersLost < EliminationLimit
    /\ \E q \in DOMAIN players : q # winner /\ players[q].monstersLost >= EliminationLimit

\* C10 (an Active session has two players left): whenever status is "active",
\* at least two members of playerOrder are not eliminated.
C10_ActiveHasTwo ==
    status = "active" => Cardinality(NonEliminated(players, playerOrder)) >= 2

\* A TurnAction with nothing placed and nothing moved.
IsEmptyTurnAction(ta) ==
    /\ ta.placedMonster = FALSE
    /\ ta.placedMonsterId = 0
    /\ ta.movedMonsters = {}

\* C11 (startGame): a startGame call succeeds exactly when status is
\* "waiting" and at least two players have joined; a successful call makes the
\* session Active with playerOrder a permutation of the joined players,
\* currentPlayerIndex 0, round 1 and an empty TurnAction for every player; a
\* failed call changes nothing.
C11_StartGame ==
    [][startGame =>
          IF status = "waiting" /\ Cardinality(DOMAIN players) >= 2
          THEN /\ ret' = Success
               /\ status' = "active"
               /\ Len(playerOrder') = Cardinality(DOMAIN players)
               /\ Range(playerOrder') = DOMAIN players
               /\ currentPlayerIndex' = 0
               /\ round' = 1
               /\ \A q \in DOMAIN players :
                     q \in DOMAIN turnActions' /\ IsEmptyTurnAction(turnActions'[q])
               /\ UNCHANGED <<players, board, availableEdges, winner>>
          ELSE /\ ret' # Success
               /\ UNCHANGED gameVars]_vars

\* A session of three players that has just been started, the holder of
\* "top" being last in the turn order.
C11_Witness ==
    /\ status = "active"
    /\ ret = Success
    /\ round = 1
    /\ currentPlayerIndex = 0
    /\ Len(playerOrder) = 3
    /\ players[playerOrder[3]].edge = "top"
    /\ \A q \in DOMAIN players : IsEmptyTurnAction(turnActions[q])

\* The first edge, in the order top, bottom, left, right, that no player holds.
FirstUnassignedEdge ==
    LET held == {players[q].edge : q \in DOMAIN players}
        free == {i \in 1..Len(EdgeOrder) : EdgeOrder[i] \notin held}
    IN EdgeOrder[CHOOSE i \in free : \A j \in free : i <= j]

\* C12 (addPlayer): a join fails and changes nothing if the session has 4
\* players, is not Waiting, or the player is already a member; otherwise it
\* succeeds, gives the player the first unassigned edge in the order top,
\* bottom, left, right and appends the player to playerOrder.
C12_AddPlayer ==
    [][\A p \in LobbyIds :
          addPlayer(p) =>
             IF \/ Cardinality(DOMAIN players) >= 4
                \/ status # "waiting"
                \/ p \in DOMAIN players
             THEN /\ ret' # Success
                  /\ UNCHANGED gameVars
             ELSE /\ ret' = Success
                  /\ DOMAIN players' = DOMAIN players \cup {p}
                  /\ players'[p].edge = FirstUnassignedEdge
                  /\ players'[p].monsters = <<>>
                  /\ players'[p].monstersLost = 0
                  /\ \A q \in DOMAIN players : players'[q] = players[q]
                  /\ playerOrder' = Append(playerOrder, p)
                  /\ UNCHANGED <<status, board, winner>>]_vars

\* A full Waiting session whose last joiner was given the edge "top", which an
\* earlier player had returned; the last call was a rejected join.
C12_Witness ==
    /\ status = "waiting"
    /\ Len(playerOrder) = 4
    /\ players[playerOrder[4]].edge = "top"
    /\ ret = Failure

\* C13 (edge pool): the edges of the members are pairwise distinct,
\* availableEdges holds exactly the edges no member holds, and it lists them
\* in the order top, bottom, left, right.
C13_EdgePool ==
    LET held == {players[q].edge : q \in DOMAIN players}
    IN /\ \A q1 \in DOMAIN players : \A q2 \in DOMAIN players :
             q1 # q2 => players[q1].edge # players[q2].edge
       /\ held \subseteq Range(EdgeOrder)
       /\ availableEdges = SelectSeq(EdgeOrder, LAMBDA e : e \notin held)

\* Two members hold "bottom" and "right" after the holders of "top" and
\* "left" have left.
C13_Witness ==
    /\ availableEdges = <<"top", "left">>
    /\ Cardinality(DOMAIN players) = 2

\* C14 (turn repair on leave): when a member leaves an Active session that
\* stays Active, playerOrder loses the leaver and keeps the order of the
\* others; the current player stays the same if the leaver was not current,
\* and otherwise becomes the player who followed the leaver cyclically.
C14_TurnRepair ==
    [][\A p \in LobbyIds :
          (/\ status = "active"
           /\ p \in DOMAIN players
           /\ status' = "active"
           /\ removePlayer(p))
          => LET n == Len(playerOrder)
                 i == CHOOSE k \in 1..n : playerOrder[k] = p
                 current == playerOrder[currentPlayerIndex + 1]
                 follower == playerOrder[(i % n) + 1]
             IN /\ playerOrder' = SelectSeq(playerOrder, LAMBDA q : q # p)
                /\ currentPlayerIndex' + 1 \in 1..Len(playerOrder')
                /\ playerOrder'[currentPlayerIndex' + 1] =
                      IF p # current THEN current ELSE follower]_vars

\* An Active session of three players, one of the four who started having
\* left ("right" is only given to a fourth player), with the last player of
\* the order current.
C14_Witness ==
    /\ status = "active"
    /\ ret = Undefined
    /\ Len(playerOrder) = 3
    /\ Len(availableEdges) = 1
    /\ currentPlayerIndex = 2
    /\ round = 2

\* C15 (termination by leaving): a removePlayer that leaves no player in the
\* session, whatever the status, or fewer than 2 players in an Active session,
\* makes the session Finished with no winner; the player who remains is not
\* declared winner.
C15_LeaveTermination ==
    [][\A p \in PlayerIds :
          (/\ p \in DOMAIN players
           /\ \/ Cardinality(DOMAIN players) = 1
              \/ status = "active" /\ Cardinality(DOMAIN players) - 1 < 2
           /\ removePlayer(p))
          => /\ status' = "finished"
             /\ winner' = NoPlayer]_vars

\* A Finished session without winner whose only remaining player is not
\* eliminated and has a monster on the board.
C15_Witness ==
    /\ status = "finished"
    /\ winner = NoPlayer
    /\ ret = Undefined
    /\ Cardinality(DOMAIN players) = 1
    /\ \A q \in DOMAIN players :
          /\ players[q].monstersLost < EliminationLimit
          /\ Len(players[q].monsters) > 0

\* C16 (one placement per turn): from the moment a player becomes current to
\* the moment the turn passes, that player has at most one successful
\* placeMonster; a further placeMonster call in the turn fails and changes
\* nothing.
C16_AtMostOne == Len(turnLog.placed) <= 1

C16_SecondFails ==
    Len(turnLog.placed) >= 1 =>
       \A p \in PlayerIds :
          IsCurrent(p) =>
             \A type \in TypeInputs : \A pos \in PositionInputs :
                placeMonster(p, type, pos[1], pos[2])
                => /\ ret' # Success
                   /\ UNCHANGED gameVars

C16_OnePlacementPerTurn == []C16_AtMostOne /\ [][C16_SecondFails]_vars

\* The current player has placed a monster this turn, the uuid supply is not
\* used up, and the last call was rejected.
C16_Witness ==
    /\ status = "active"
    /\ Len(turnLog.placed) = 1
    /\ nextId <= MaxMonsters
    /\ ret = Failure

\* The edge predicate of the placement rule on the model's board.
OnEdge(edge, x, y) ==
    CASE edge = "top" -> y = 0
      [] edge = "bottom" -> y = BoardMax
      [] edge = "left" -> x = 0
      [] edge = "right" -> x = BoardMax

\* A placeMonster(p, type, x, y) step that succeeded: a new monster of owner p
\* and the given type at (x, y) is appended to p's roster and referenced by
\* cell (x, y), its id is recorded as the one placed this turn, and no other
\* roster or cell changes.
PlacedAt(p, type, x, y) ==
    /\ ret' = Success
    /\ Len(players'[p].monsters) = Len(players[p].monsters) + 1
    /\ LET m == players'[p].monsters[Len(players'[p].monsters)]
       IN /\ m.owner = p /\ m.type = type /\ m.x = x /\ m.y = y
          /\ \A q \in DOMAIN players : m.id \notin RosterIds(players, q)
          /\ players'[p].monsters = Append(players[p].monsters, m)
          /\ board' = [board EXCEPT ![<<x, y>>] = m]
          /\ turnActions'[p].placedMonster = TRUE
          /\ turnActions'[p].placedMonsterId = m.id
    /\ \A q \in DOMAIN players \ {p} : players'[q] = players[q]

\* C17 (placement legality): a placeMonster call with a valid type by the
\* current player, who has not placed in this turn, succeeds exactly when the
\* position is on the board, the cell is empty and the cell is on the
\* player's edge; a successful call adds the new monster to roster and cell
\* and records its id as placed this turn; a failed call changes nothing.
C17_PlacementLegality ==
    [][\A p \in TrioIds :
          (IsCurrent(p) /\ turnLog.placed = <<>>) =>
             \A type \in MonsterTypes : \A pos \in PositionInputs :
                placeMonster(p, type, pos[1], pos[2]) =>
                   IF /\ pos \in Cells
                      /\ board[pos] = NoMonster
                      /\ OnEdge(players[p].edge, pos[1], pos[2])
                   THEN PlacedAt(p, type, pos[1], pos[2])
                   ELSE ret' # Success /\ UNCHANGED gameVars]_vars

\* The ids the current player has placed or moved in the turn in progress.
LoggedIds == Range(turnLog.placed) \cup Range(turnLog.moved)

\* No monster is moved twice in a turn, and none that was placed in the turn.
C19_OncePerTurn ==
    /\ \A i \in 1..Len(turnLog.moved) : \A j \in 1..Len(turnLog.moved) :
          i # j => turnLog.moved[i] # turnLog.moved[j]
    /\ Range(turnLog.placed) \cap Range(turnLog.moved) = {}

\* A move of a monster already moved or placed in the turn fails and changes
\* nothing.
C19_RepeatFails ==
    \A p \in TrioIds :
       IsCurrent(p) =>
          \A monsterId \in LoggedIds : \A pos \in PositionInputs :
             moveMonster(p, monsterId, pos[1], pos[2])
             => ret' # Success /\ UNCHANGED gameVars

\* A monster of the current player that was neither placed nor moved in the
\* turn may be moved: a call that isValidMove admits succeeds.
C19_OthersMayMove ==
    \A p \in TrioIds :
       IsCurrent(p) =>
          \A monsterId \in RosterIds(players, p) \ LoggedIds : \A pos \in PositionInputs :
             (/\ isValidMove(p, MonsterOf(players, p, monsterId), pos[1], pos[2])
              /\ moveMonster(p, monsterId, pos[1], pos[2]))
             => ret' = Success

\* C19 (per-turn move bookkeeping): within one turn of a player each monster
\* is moved successfully at most once and the monster placed in the turn is
\* never moved; a move attempt against either rule fails and changes nothing;
\* any other monster of the player may be moved.
C19_MoveBookkeeping ==
    []C19_OncePerTurn /\ [][C19_RepeatFails /\ C19_OthersMayMove]_vars

\* The corners of the board on which isValidPlacement is called on its own.
GridCorners == {0, GridMax} \X {0, GridMax}

\* C18 as stated (corner ownership): of the top and the left edge exactly one
\* admits a placement on (0,0), placement there succeeds only when the cell is
\* empty, and no cell is a legal placement cell for two different edges.
C18_OneEdgePerCell ==
    probe.kind = "placement" /\ probe.applied =>
       /\ probe.pos = <<0, 0>> /\ probe.occupant = 0
             => Cardinality(probe.result \cap {"top", "left"}) = 1
       /\ probe.occupant # 0 => probe.result = {}
       /\ Cardinality(probe.result) <= 1

\* C18 as the code has it: the empty corner (0,0) is a legal placement cell
\* for the top and the left edge and for no other edge, an occupied cell for
\* none; a cell is a legal placement cell for two different edges exactly
\* when it is an empty corner of the board, and never for three.
C18_CornerSharedByTwoEdges ==
    probe.kind = "placement" /\ probe.applied =>
       /\ probe.pos = <<0, 0>>
             => probe.result = IF probe.occupant = 0 THEN {"top", "left"} ELSE {}
       /\ probe.occupant # 0 => probe.result = {}
       /\ Cardinality(probe.result) <= 2
       /\ Cardinality(probe.result) = 2
             <=> (probe.pos \in GridCorners /\ probe.occupant = 0)

\* isValidPlacement has answered for the empty corner (0,0): top and left.
C18_Witness ==
    /\ probe.kind = "placement"
    /\ probe.applied
    /\ probe.pos = <<0, 0>>
    /\ probe.occupant = 0
    /\ probe.result = {"top", "left"}

\* C20 (move geometry): every move isValidMove accepts is purely horizontal
\* (dy = 0, dx > 0), purely vertical (dx = 0, dy > 0) or a true diagonal
\* (dx = dy > 0), whatever the board holds.
C20_MoveGeometry ==
    (probe.kind = "move" /\ probe.applied /\ probe.result) =>
       LET dx == abs(probe.newX - probe.monster.x)
           dy == abs(probe.newY - probe.monster.y)
       IN \/ dy = 0 /\ dx > 0
          \/ dx = 0 /\ dy > 0
          \/ dx = dy /\ dx > 0

\* ------------------------------------------ the probe of isValidMove, read
\* The call of isValidMove has been made.
ProbeMove == probe.kind = "move" /\ probe.applied
ProbeDx == abs(probe.newX - probe.monster.x)
ProbeDy == abs(probe.newY - probe.monster.y)
ProbeStraight == (ProbeDx > 0 /\ ProbeDy = 0) \/ (ProbeDx = 0 /\ ProbeDy > 0)
ProbeDiagonal == ProbeDx = ProbeDy /\ ProbeDx > 0
ProbeDestination == <<probe.newX, probe.newY>>

\* The owner of the token on cell c of the probed board, NoPlayer if none.
ProbeOwnerAt(c) ==
    IF \E o \in probe.others : o.cell = c
    THEN (CHOOSE o \in probe.others : o.cell = c).owner
    ELSE NoPlayer

\* The squares strictly between the token and its destination on a straight
\* or truly diagonal line.
ProbeIntermediate ==
    LET n == IF ProbeDx > ProbeDy THEN ProbeDx ELSE ProbeDy
    IN {<<probe.monster.x + i * sign(probe.newX - probe.monster.x),
          probe.monster.y + i * sign(probe.newY - probe.monster.y)>> : i \in 1..(n - 1)}

\* No intermediate square holds a token of another player.
ProbePathFree ==
    \A c \in ProbeIntermediate : ProbeOwnerAt(c) \in {NoPlayer, probe.monster.owner}

\* C21 (diagonal range cap): a move with dx > 0 and dy > 0 is rejected
\* whenever dx > 2 or dy > 2, whatever the board holds, while a straight move
\* is never rejected because of its length: on the board, with no token of
\* another player in between and no token of the mover on the destination, a
\* straight move of any length is accepted.
C21_DiagonalCap ==
    ProbeMove =>
       /\ (ProbeDx > 0 /\ ProbeDy > 0 /\ (ProbeDx > 2 \/ ProbeDy > 2)) => ~probe.result
       /\ (/\ ProbeStraight
           /\ ProbeDestination \in GridCells
           /\ ProbePathFree
           /\ ProbeOwnerAt(ProbeDestination) # probe.monster.owner) => probe.result

\* A diagonal of three squares on a board with no other token was rejected.
C21_Witness ==
    /\ ProbeMove
    /\ ProbeDx = 3 /\ ProbeDy = 3
    /\ probe.others = {}
    /\ ~probe.result

\* A straight move along x across the whole board (dx = 9, dy = 0 on the
\* 10x10 board) has been validated.
ProbeFullWidth ==
    /\ ProbeMove
    /\ ProbeDx = GridMax /\ ProbeDy = 0
    /\ ProbeDestination \in GridCells

\* A token of another player than the mover stands on cell c.
ProbeOpposingAt(c) == ProbeOwnerAt(c) \notin {NoPlayer, probe.monster.owner}

\* C22 (straight-move obstruction), as stated: a straight move of
\* (dx = 9, dy = 0) is legal if and only if no opposing token occupies any
\* intermediate square or the destination square.
C22_LegalIffNoOpposingToken ==
    ProbeFullWidth =>
       (probe.result <=>
           \A c \in ProbeIntermediate \cup {ProbeDestination} : ~ProbeOpposingAt(c))

\* C22, amended: a straight move of (dx = 9, dy = 0) passes isValidMove if
\* and only if no opposing token occupies any intermediate square and the
\* destination square does not hold a token of the mover; an opposing token
\* on the destination square does not make the move illegal.
C22_LegalIffPathFreeAndNotOwnDestination ==
    ProbeFullWidth =>
       (probe.result <=>
           /\ \A c \in ProbeIntermediate : ~ProbeOpposingAt(c)
           /\ ProbeOwnerAt(ProbeDestination) # probe.monster.owner)

\* A move across the whole board onto a square held by an opposing token,
\* with an own token on the way, was accepted.
C22_Witness ==
    /\ ProbeFullWidth
    /\ ProbeOpposingAt(ProbeDestination)
    /\ \E c \in ProbeIntermediate : ProbeOwnerAt(c) = probe.monster.owner
    /\ probe.result

\* A move along a row, a column or a diagonal of at most two squares to a
\* square of the board has been validated.
ProbeAdmissible ==
    /\ ProbeMove
    /\ ProbeDestination \in GridCells
    /\ ProbeStraight \/ (ProbeDiagonal /\ ProbeDx <= 2)

\* C23 (path rule): a geometrically admissible move is legal if and only if
\* no intermediate square holds a token of another player and the destination
\* does not hold a token of the mover: own tokens in between never block, an
\* empty destination is legal, and a destination holding another player's
\* token is legal and makes moveMonster resolve a combat on landing.
C23_PathRule ==
    ProbeAdmissible =>
       /\ probe.result <=>
             /\ \A c \in ProbeIntermediate : ~ProbeOpposingAt(c)
             /\ ProbeOwnerAt(ProbeDestination) # probe.monster.owner
       /\ probe.conflict <=> (probe.result /\ ProbeOpposingAt(ProbeDestination))

\* A diagonal of two squares over an own token onto a token of another
\* player was accepted and ends in combat.
C23_Witness ==
    /\ ProbeAdmissible
    /\ ProbeDiagonal /\ ProbeDx = 2
    /\ \E c \in ProbeIntermediate : ProbeOwnerAt(c) = probe.monster.owner
    /\ ProbeOpposingAt(ProbeDestination)
    /\ probe.result /\ probe.conflict

\* The number of live tokens of player q.
LiveTokens(ps, q) == Len(ps[q].monsters)

\* C24 (round boundary ordering): when endTurn advances currentPlayerIndex
\* and it wraps to 0, round increases by exactly 1 and playerOrder becomes a
\* permutation of its previous members in non-decreasing order of live token
\* count, so that a player with strictly fewer tokens than every other
\* player is first in the next round.
C24_RoundBoundaryOrder ==
    [][\A p \in PlayerIds :
          (/\ IsCurrent(p)
           /\ currentPlayerIndex + 1 = Len(playerOrder)
           /\ endTurn(p)) =>
             /\ round' = round + 1
             /\ playerOrder' \in Perms(playerOrder)
             /\ \A i \in 1..Len(playerOrder') : \A j \in 1..Len(playerOrder') :
                   i < j => LiveTokens(players, playerOrder'[i])
                               <= LiveTokens(players, playerOrder'[j])
             /\ \A q \in Range(playerOrder) :
                   (\A r \in Range(playerOrder) \ {q} :
                        LiveTokens(players, q) < LiveTokens(players, r))
                   => playerOrder'[1] = q]_vars

\* The second round has just begun and the player with fewer tokens leads.
C24_Witness ==
    /\ status = "active"
    /\ round = 2
    /\ currentPlayerIndex = 0
    /\ turnLog = emptyTurnLog
    /\ ret = Success
    /\ Len(playerOrder) = 2
    /\ LiveTokens(players, playerOrder[1]) < LiveTokens(players, playerOrder[2])

\* C25 (round boundary reset): immediately after an endTurn that crosses a
\* round boundary, the TurnAction of every player in playerOrder, not only of
\* the new current player, is empty.
C25_RoundBoundaryReset ==
    [][\A p \in PlayerIds :
          (/\ IsCurrent(p)
           /\ currentPlayerIndex + 1 = Len(playerOrder)
           /\ endTurn(p)) =>
             \A q \in Range(playerOrder') :
                 q \in DOMAIN turnActions' /\ IsEmptyTurnAction(turnActions'[q])]_vars

\* Player q has lost as many monsters as eliminate a player.
Eliminated(ps, q) == ps[q].monstersLost >= EliminationLimit

\* The 0-based index k places after index i in an order of n players.
After(i, k, n) == (i + k) % n

\* C26 (skip of eliminated players): an endTurn of the current player
\* succeeds, and afterwards either the session is Finished or the new current
\* player is the first non-eliminated player at or after the position that
\* follows the caller, reached over fewer than |playerOrder| eliminated
\* players; if every player in playerOrder is eliminated the session ends
\* Finished with no winner.
C26_SkipEliminated ==
    [][\A p \in TrioIds :
          (IsCurrent(p) /\ endTurn(p)) =>
             LET n == Len(playerOrder')
                 first == (currentPlayerIndex + 1) % n
             IN /\ ret' = Success
                /\ \/ status' = "finished"
                   \/ /\ status' = "active"
                      /\ \E k \in 0..(n - 1) :
                            /\ currentPlayerIndex' = After(first, k, n)
                            /\ ~Eliminated(players', playerOrder'[currentPlayerIndex' + 1])
                            /\ \A j \in 0..(k - 1) :
                                  Eliminated(players', playerOrder'[After(first, j, n) + 1])
                /\ (\A q \in Range(playerOrder) : Eliminated(players, q))
                      => (status' = "finished" /\ winner' = NoPlayer)]_vars

\* A turn has just begun in a session of three players whose previous
\* player in the order was eliminated as a defender and has been skipped.
C26_Witness ==
    /\ status = "active"
    /\ ret = Success
    /\ turnLog = emptyTurnLog
    /\ Len(playerOrder) = 3
    /\ LET skipped == playerOrder[After(currentPlayerIndex, 2, 3) + 1]
       IN /\ Eliminated(players, skipped)
          /\ turnActions[skipped].movedMonsters = {}
    /\ ~Eliminated(players, playerOrder[currentPlayerIndex + 1])

\* C27 (fresh TurnAction at turn start): whenever a player becomes the
\* current player of an Active session, by startGame, by another player's
\* endTurn or because the previous current player left, that player's
\* TurnAction is empty at that moment.
C27_FreshTurnAction ==
    [][\A q \in TrioIds :
          (~IsCurrent(q) /\ IsCurrent(q)') =>
             /\ q \in DOMAIN turnActions'
             /\ IsEmptyTurnAction(turnActions'[q])]_vars

\* C28 (rejection leaves state unchanged): every placeMonster, moveMonster,
\* endTurn, addPlayer or startGame call that returns a failure for a rule
\* violation leaves every field of the session as it was.
C28_RejectionUnchanged ==
    [][(ret' \in {Failure, NotYourTurn}) => UNCHANGED gameVars]_vars

\* A call of the current player was rejected in a turn in which that player
\* had already placed a monster.
C28_Witness ==
    /\ status = "active"
    /\ ret = Failure
    /\ turnLog.placed # <<>>
    /\ \E c \in Cells : board[c] # NoMonster

\* The fields of the public snapshot and of its entry for one player.
SnapshotFields ==
    {"id", "status", "round", "currentPlayerId", "winner", "playerOrder", "board",
     "players"}
SnapshotPlayerFields == {"id", "edge", "monsterCount", "monstersLost", "isEliminated"}

\* C30 (snapshot confidentiality): the state returned by getState contains
\* only id, status, round, currentPlayerId, winner, playerOrder, board and,
\* per player, edge, token count, lost count and isEliminated; it never
\* contains TurnAction detail or the lock state.
C30_SnapshotConfidential ==
    /\ DOMAIN getState \subseteq SnapshotFields
    /\ \A q \in DOMAIN getState.players :
          DOMAIN getState.players[q] \subseteq SnapshotPlayerFields

\* C31 (endGame idempotence): a call of endGame, with any winner argument,
\* on a session that is already Finished changes neither status, nor winner,
\* nor any field of the snapshot.
C31_EndGameIdempotent ==
    [][\A winnerId \in TrioIds \cup {NoPlayer} :
          (status = "finished" /\ endGameCall(winnerId)) =>
             /\ status' = status
             /\ winner' = winner
             /\ getState' = getState]_vars

\* endGame was called on a finished session with another winner than the
\* session's, which is kept.
C31_Witness ==
    /\ probe.kind = "endGame"
    /\ status = "finished"
    /\ winner # NoPlayer
    /\ probe.winnerId # winner

\* C32 (combat is only between different owners): no successful move lands
\* a token on a cell of the board that holds a token of the same owner, so
\* handleConflict is only invoked with an arriving token and an occupying
\* token whose owners differ.
C32_CombatBetweenOwners ==
    [][\A p \in PlayerIds : \A monsterId \in MonsterIds : \A pos \in Cells :
          (/\ ret' = Success
           /\ IsCurrent(p)
           /\ monsterId \in RosterIds(players, p)
           /\ callsHandleConflictOn(board, pos[1], pos[2])
           /\ moveMonster(p, monsterId, pos[1], pos[2])) =>
             /\ board[pos].owner # MonsterOf(players, p, monsterId).owner
             /\ board[pos].owner # p]_vars

\* A player who had placed a second token moved the first one into a combat.
C32_Witness ==
    /\ ret = Success
    /\ Len(turnLog.placed) = 1
    /\ Len(turnLog.moved) = 1
    /\ \E q \in DOMAIN players : players[q].monstersLost > 0

\* The order is in non-decreasing order of live token count.
SortedByTokens(ps, order) ==
    \A i \in 1..Len(order) : \A j \in 1..Len(order) :
        i < j => LiveTokens(ps, order[i]) <= LiveTokens(ps, order[j])

\* The step passes the turn of the current player p back to position 0 of the
\* order of a session that stays active: by the advance of endTurn, by its
\* skip loop running past the end of the order, or because p, last in the
\* order, leaves.
TurnWraps(p) ==
    LET n == Len(playerOrder)
        first == (currentPlayerIndex + 1) % n
    IN /\ IsCurrent(p)
       /\ status' = "active"
       /\ \/ /\ first = 0 \/ currentPlayerIndex' < first
             /\ endTurn(p)
          \/ /\ n > 1 /\ currentPlayerIndex = n - 1
             /\ removePlayer(p)

\* C33 (every wrap of the turn is a round boundary): each time the turn
\* passes from a position of playerOrder back to position 0, also while
\* skipping eliminated players in endTurn or because the last-in-order
\* current player left, round is incremented by 1 and playerOrder is
\* re-sorted by token count.
C33_EveryWrapIsRoundBoundary ==
    [][\A p \in TrioIds :
          TurnWraps(p) =>
             /\ round' = round + 1
             /\ SortedByTokens(players', playerOrder')]_vars

\* C34 (eliminated players do not act): no placeMonster or moveMonster call
\* of a player who has lost as many monsters as eliminate a player succeeds,
\* whether the player was eliminated during the own turn or became the
\* current player because the previous current player left.
C34_EliminatedDoNotAct ==
    [][\A p \in PlayerIds :
          (/\ ret' = Success
           /\ p \in DOMAIN players
           /\ Eliminated(players, p)) =>
             /\ \A type \in TypeInputs : \A pos \in PositionInputs :
                   ~placeMonster(p, type, pos[1], pos[2])
             /\ \A monsterId \in MonsterIds : \A pos \in PositionInputs :
                   ~moveMonster(p, monsterId, pos[1], pos[2])]_vars

\* A step that is a call of placeMonster or moveMonster made while the lock
\* is set.
CallFindsLock ==
    /\ actionLock
    /\ \/ \E p \in PlayerIds : \E type \in TypeInputs : \E pos \in PositionInputs :
             placeMonster(p, type, pos[1], pos[2])
       \/ \E p \in PlayerIds : \E monsterId \in MonsterIds : \E pos \in PositionInputs :
             moveMonster(p, monsterId, pos[1], pos[2])

\* C35 (action lock discipline): actionLock is false in every state in which
\* no placeMonster or moveMonster call is executing, i.e. it is released on
\* every return path, and a placeMonster or moveMonster call that finds it
\* set returns failure without changing any other state.
C35_ActionLockDiscipline ==
    /\ [](actionLock = FALSE)
    /\ [][CallFindsLock => (ret' = Failure /\ UNCHANGED gameVars)]_vars

\* The lock is free after a turn with a placement, a move and a rejected
\* call.
C35_Witness ==
    /\ actionLock = FALSE
    /\ status = "active"
    /\ ret = Failure
    /\ turnLog.placed # <<>>
    /\ turnLog.moved # <<>>

\* C36 (only own tokens move): a successful moveMonster(p, monsterId, ...)
\* moves a token of the caller's own roster; a token id that is unknown or
\* belongs to another player is rejected with no state change; and no other
\* player's token changes position by the move: each of their tokens either
\* stays as it is or is removed in the combat.  Stated as: no step that
\* succeeds or changes the session is a moveMonster call with a token id
\* outside the caller's roster, and every successful move has these effects.
C36_OnlyOwnTokensMove ==
    [][/\ (ret' = Success \/ ~UNCHANGED gameVars) =>
            \A p \in PlayerIds : \A monsterId \in MonsterIds :
               (p \notin DOMAIN players \/ monsterId \notin RosterIds(players, p)) =>
                  \A pos \in PositionInputs : ~moveMonster(p, monsterId, pos[1], pos[2])
       /\ (ret' = Success /\ players' # players) =>
            \A p \in PlayerIds : \A monsterId \in MonsterIds : \A pos \in PositionInputs :
               moveMonster(p, monsterId, pos[1], pos[2]) =>
                  /\ monsterId \in RosterIds(players, p)
                  /\ \A m \in Roster(players', p) :
                        IF m.id = monsterId THEN <<m.x, m.y>> = pos
                        ELSE m \in Roster(players, p)
                  /\ \A q \in DOMAIN players' \ {p} :
                        Roster(players', q) \subseteq Roster(players, q)]_vars

\* A token was moved to an empty square while the other player had a token
\* on the board.
C36_Witness ==
    /\ ret = Success
    /\ Len(turnLog.moved) = 1
    /\ \A q \in PlayerIds :
          /\ q \in DOMAIN players
          /\ players[q].monstersLost = 0
          /\ players[q].monsters # <<>>

\* C37 (leave forfeits tokens and nothing else on the board): after
\* removePlayer(p) no board cell holds a token owned by p and p is absent
\* from players, playerOrder and turnActions, while every board cell that
\* held a token of another player still holds the same token and the other
\* players' rosters and monstersLost are unchanged.
C37_LeaveForfeitsTokens ==
    [][\A p \in PlayerIds :
          (p \in DOMAIN players /\ removePlayer(p)) =>
             /\ \A c \in Cells : board'[c].owner # p
             /\ p \notin DOMAIN players'
             /\ p \notin Range(playerOrder')
             /\ p \notin DOMAIN turnActions'
             /\ \A c \in Cells :
                   (board[c] # NoMonster /\ board[c].owner # p) => board'[c] = board[c]
             /\ \A q \in DOMAIN players \ {p} :
                   /\ q \in DOMAIN players'
                   /\ players'[q].monsters = players[q].monsters
                   /\ players'[q].monstersLost = players[q].monstersLost]_vars

\* A player with a token on the board has left a session in which the
\* remaining player's only token is still on the board.
C37_Witness ==
    /\ ret = Undefined
    /\ nextId = 3
    /\ \E q \in PlayerIds :
          /\ DOMAIN players = {q}
          /\ placements[q] = 1
          /\ players[q].monstersLost = 0
          /\ Len(players[q].monsters) = 1
          /\ board[<<players[q].monsters[1].x, players[q].monsters[1].y>>]
                = players[q].monsters[1]
          /\ \A c \in Cells : board[c].owner \in {NoPlayer, q}

\* C38 (membership structure invariant): in every reachable state playerOrder
\* has no duplicates and at most 4 entries, its set of ids equals the key set
\* of players, and whenever status is Active 0 <= currentPlayerIndex <
\* |playerOrder|, so that getCurrentPlayer is a member.
C38_MembershipStructure ==
    /\ \A i \in 1..Len(playerOrder) : \A j \in 1..Len(playerOrder) :
          i # j => playerOrder[i] # playerOrder[j]
    /\ Len(playerOrder) <= MaxPlayers
    /\ Range(playerOrder) = DOMAIN players
    /\ status = "active" =>
          /\ currentPlayerIndex \in 0..(Len(playerOrder) - 1)
          /\ getCurrentPlayer \in DOMAIN players

\* An active session of three players, the first of the order current, after
\* the leave of a fourth player whose edge was not the right one.
C38_Witness ==
    /\ status = "active"
    /\ Len(playerOrder) = 3
    /\ Len(availableEdges) = 1
    /\ availableEdges[1] # "right"
    /\ currentPlayerIndex = 0
    /\ ret = Undefined
    /\ round = 1

\* The step changes the order of the turn, the position in it or the round.
TurnChanged == ~UNCHANGED <<playerOrder, currentPlayerIndex, round>>

\* The step changes the TurnAction of a player other than p.
OtherTurnActionChanged(p) ==
    \/ DOMAIN turnActions' # DOMAIN turnActions
    \/ \E q \in DOMAIN turnActions \ {p} : turnActions'[q] # turnActions[q]

\* The step is a placeMonster or moveMonster call of player p.
PlaceOrMove(p) ==
    \/ \E type \in TypeInputs : \E pos \in PositionInputs :
          placeMonster(p, type, pos[1], pos[2])
    \/ \E monsterId \in MonsterIds : \E pos \in PositionInputs :
          moveMonster(p, monsterId, pos[1], pos[2])

\* No placeMonster or moveMonster call, successful or failed, changes
\* playerOrder, currentPlayerIndex, round or another player's TurnAction.
PlaceAndMoveKeepTurn ==
    \A p \in PlayerIds :
        (TurnChanged \/ OtherTurnActionChanged(p)) => ~PlaceOrMove(p)

\* C39 (place and move do not pass the turn), as stated: a successful or
\* failed placeMonster or moveMonster never changes playerOrder,
\* currentPlayerIndex or round, and never changes any other player's
\* TurnAction; only endTurn, startGame and removePlayer change them.
C39_OnlyTurnOperations ==
    [][/\ PlaceAndMoveKeepTurn
       /\ TurnChanged =>
             \/ \E p \in PlayerIds : endTurn(p)
             \/ startGame
             \/ \E p \in PlayerIds : removePlayer(p)]_vars

\* C39, amended: as above, but playerOrder is also changed by addPlayer,
\* which appends the new member.
C39_OnlyTurnOperationsAndJoin ==
    [][/\ PlaceAndMoveKeepTurn
       /\ TurnChanged =>
             \/ \E p \in PlayerIds : endTurn(p)
             \/ startGame
             \/ \E p \in PlayerIds : removePlayer(p)
             \/ \E p \in PlayerIds : addPlayer(p)]_vars

\* In round 2 the current player has placed a token and moved another without
\* a combat, and a turn is still in progress.
C39_Witness ==
    /\ status = "active"
    /\ round = 2
    /\ ret = Success
    /\ Len(turnLog.placed) = 1
    /\ Len(turnLog.moved) = 1
    /\ \A q \in DOMAIN players : players[q].monstersLost = 0

\* Player q is a member who is not eliminated, in an active session whose
\* round counter is below its bound.
Waits(q) ==
    /\ status = "active"
    /\ round < MaxRound
    /\ q \in DOMAIN players
    /\ ~Eliminated(players, q)

\* Player q is the current player, or the session is finished, or q has
\* left or has been eliminated.
Served(q) ==
    \/ IsCurrent(q)
    \/ status = "finished"
    \/ q \notin DOMAIN players
    \/ Eliminated(players, q)

====
